---- MODULE Spec2Model ----
(***************************************************************************)
(* A model of lccs_ws/data.py, the data-access layer of the Land Cover     *)
(* Classification System Web Service.  The database tables are sets of     *)
(* rows, every function of data.py is one action, and the outcome of the   *)
(* last call (its HTTP abort code or OK, and its return value) is kept in  *)
(* the state so that the contract of each call can be stated.              *)
(*                                                                         *)
(* The store is the session's view of the database: a row added with       *)
(* db.session.add is visible to the following queries (autoflush), and     *)
(* `uncommitted` holds the rows that no db.session.commit() has yet made   *)
(* durable.  Foreign keys are enforced by the store: deleting a row        *)
(* deletes the rows that reference it.                                     *)
(***************************************************************************)
EXTENDS Integers, Sequences, FiniteSets, TLC

VARIABLES
    systems,        \* rows of LucClassificationSystem
    classes,        \* rows of LucClass
    mappings,       \* rows of ClassMapping
    style_formats,  \* rows of StyleFormats
    styles,         \* rows of Styles
    next_id,        \* the next autoincrement id of each table
    uncommitted,    \* <<table, id>> of the rows added and not yet committed
    op,             \* the function of data.py called last
    args,           \* its arguments
    outcome,        \* OK, or the code it aborted with
    ret             \* its return value

store == <<systems, classes, mappings, style_formats, styles, next_id, uncommitted>>
vars == <<systems, classes, mappings, style_formats, styles, next_id, uncommitted,
          op, args, outcome, ret>>

---------------------------------------------------------------------------
(* Bounds of the model.                                                    *)

MaxSystemId == 2
MaxClassId == 2
MaxMappingId == 2
MaxFormatId == 2
MaxStyleId == 2
MaxBatch == 2

(* The values the calls are made with.                                     *)

NULL == "None"
SystemNames == {"IBGE", "PRODES"}
Versions == {"1.0", "2.0"}
Authorities == {"INPE"}
Descriptions == {"d"}
ClassNames == {"Forest", "Water"}
Codes == {"c"}
SystemIds == 1..(MaxSystemId + 1)
ClassIds == 1..(MaxClassId + 1)

(* The outcomes of a call.                                                 *)

OK == 200
BadRequest == 400
NotFound == 404
Conflict == 409
StoreError == 500

---------------------------------------------------------------------------
(* The end of a call.                                                      *)

\* abort(code, ...): the call ends with the HTTP error, nothing is returned.
abort(name, a, code) ==
    /\ op' = name
    /\ args' = a
    /\ outcome' = code
    /\ ret' = NULL

\* return value: the call ends normally.
return(name, a, value) ==
    /\ op' = name
    /\ args' = a
    /\ outcome' = OK
    /\ ret' = value

\* db.session.commit(): everything the session holds becomes durable.
commit == uncommitted' = {}

\* The end of a call that only reads.
read(name, a, value) ==
    /\ return(name, a, value)
    /\ UNCHANGED store

---------------------------------------------------------------------------
(* Classification systems.                                                 *)

\* LucClassificationSystem.query.filter_by(id=system_id)
system_by_id(system_id) == {s \in systems : s.id = system_id}

\* query.first_or_404(): the call aborts with NotFound when the query has no row,
\* and the result is a row otherwise.  A result is the set of the one row (a
\* set is empty where the code has None).
first_or_404(query) ==
    IF query = {} THEN [outcome |-> NotFound, value |-> {}]
    ELSE [outcome |-> OK, value |-> {CHOOSE row \in query : TRUE}]

classification_system(system_id) == first_or_404(system_by_id(system_id))

\* The query of create_classification_system: the rows with this name and version.
system_registered(name, version) ==
    {s \in systems : s.name = name /\ s.version = version}

create_classification_system(name, authority_name, version, description) ==
    LET a == [name |-> name, authority_name |-> authority_name,
              version |-> version, description |-> description]
        system == [id |-> next_id.systems, name |-> name,
                   authority_name |-> authority_name, version |-> version,
                   description |-> description]
    IN  IF system_registered(name, version) # {}
        THEN /\ abort("create_classification_system", a, BadRequest)
             /\ UNCHANGED store
        ELSE /\ next_id.systems <= MaxSystemId
             /\ systems' = systems \cup {system}
             /\ next_id' = [next_id EXCEPT !.systems = @ + 1]
             /\ commit
             /\ return("create_classification_system", a, system)
             /\ UNCHANGED <<classes, mappings, style_formats, styles>>

\* db.session.delete(system): the store deletes with the system the rows that
\* reference it (ON DELETE CASCADE): its classes and styles, and the mappings of
\* those classes.
delete_classification_system(system_id) ==
    LET a == [system_id |-> system_id]
        gone == {c \in classes : c.class_system_id = system_id}
        goneIds == {c.id : c \in gone}
    IN  IF first_or_404(system_by_id(system_id)).outcome = NotFound
        THEN /\ abort("delete_classification_system", a, NotFound)
             /\ UNCHANGED store
        ELSE /\ systems' = systems \ system_by_id(system_id)
             /\ classes' = classes \ gone
             /\ mappings' = {m \in mappings : /\ m.source_class_id \notin goneIds
                                              /\ m.target_class_id \notin goneIds}
             /\ styles' = {s \in styles : s.class_system_id # system_id}
             /\ commit
             /\ return("delete_classification_system", a, NULL)
             /\ UNCHANGED <<style_formats, next_id>>

\* The dicts update_classification_system is called with: any of the four
\* attributes, each with a new value.
SystemPatches ==
    {[name |-> n, version |-> v, authority_name |-> au, description |-> d] :
        n \in SystemNames \cup {NULL}, v \in Versions \cup {NULL},
        au \in Authorities \cup {NULL}, d \in Descriptions \cup {NULL}}

\* for attr in obj.keys(): setattr(system, attr, obj.get(attr)); an attribute
\* that is not a key of obj (NULL here) keeps its value.
patched(row, obj) ==
    [f \in DOMAIN row |->
        IF f \in DOMAIN obj /\ obj[f] # NULL THEN obj[f] ELSE row[f]]

update_classification_system(system_id, obj) ==
    LET a == [system_id |-> system_id, obj |-> obj]
    IN  IF classification_system(system_id).outcome = NotFound
        THEN /\ abort("update_classification_system", a, NotFound)
             /\ UNCHANGED store
        ELSE /\ systems' = {IF s.id = system_id THEN patched(s, obj) ELSE s :
                                s \in systems}
             /\ commit
             /\ return("update_classification_system", a,
                       patched(CHOOSE s \in systems : s.id = system_id, obj))
             /\ UNCHANGED <<classes, mappings, style_formats, styles, next_id>>

---------------------------------------------------------------------------
(* Classes.                                                                *)

\* The query of insert_class with the filter on class_system_id left out.
class_registered_mutant(cls, system_id, name) ==
    {c \in cls : c.name = name}

\* The query of insert_class: filter_by(class_system_id=system_id, name=name)
\* over the rows the session holds, `cls`.
class_registered(cls, system_id, name) ==
    {c \in cls : c.class_system_id = system_id /\ c.name = name}

\* The row insert_class builds for a descriptor.
LucClass(id, system_id, d) ==
    [id |-> id, name |-> d.name, code |-> d.code, description |-> d.description,
     class_system_id |-> system_id, class_parent_id |-> d.class_parent_id]

\* The descriptors a class is inserted with.
ClassDescriptors ==
    {[name |-> n, code |-> c, description |-> d, class_parent_id |-> NULL] :
        n \in ClassNames, c \in Codes, d \in Descriptions}

\* One call of insert_class on the rows `cls` with the next id `nid`: Conflict
\* when the name is used in the system, and the row added to the session
\* otherwise.  The store refuses a row whose class_system_id is no system.
insert_class_on(cls, nid, system_id, d) ==
    IF class_registered(cls, system_id, d.name) # {}
    THEN [outcome |-> Conflict, classes |-> cls, next |-> nid]
    ELSE IF system_by_id(system_id) = {}
    THEN [outcome |-> StoreError, classes |-> cls, next |-> nid]
    ELSE [outcome |-> OK, classes |-> cls \cup {LucClass(nid, system_id, d)},
          next |-> nid + 1]

\* insert_class called on its own: the row is added and not committed.
insert_class(system_id, d) ==
    LET a == [system_id |-> system_id, name |-> d.name, code |-> d.code,
              description |-> d.description, class_parent_id |-> d.class_parent_id]
        r == insert_class_on(classes, next_id.classes, system_id, d)
    IN  IF r.outcome # OK
        THEN /\ abort("insert_class", a, r.outcome)
             /\ UNCHANGED store
        ELSE /\ next_id.classes <= MaxClassId
             /\ classes' = r.classes
             /\ next_id' = [next_id EXCEPT !.classes = r.next]
             /\ uncommitted' = uncommitted \cup {<<"classes", next_id.classes>>}
             /\ return("insert_class", a, NULL)
             /\ UNCHANGED <<systems, mappings, style_formats, styles>>

\* for classes in classes_files_json: insert_class(system_id, **classes), which
\* stops at the first descriptor that aborts.
RECURSIVE insert_each(_, _, _, _)
insert_each(cls, nid, system_id, batch) ==
    IF batch = <<>> THEN [outcome |-> OK, classes |-> cls, next |-> nid]
    ELSE LET r == insert_class_on(cls, nid, system_id, Head(batch))
         IN  IF r.outcome # OK THEN r
             ELSE insert_each(r.classes, r.next, system_id, Tail(batch))

\* insert_classes with the partial inserts kept when a descriptor aborts.
insert_classes_mutant(system_id, classes_files_json) ==
    LET a == [system_id |-> system_id, classes_files_json |-> classes_files_json]
        system == classification_system(system_id)
        r == insert_each(classes, next_id.classes, system_id, classes_files_json)
    IN  IF system.outcome = NotFound
        THEN /\ abort("insert_classes", a, NotFound)
             /\ UNCHANGED store
        ELSE /\ r.next <= MaxClassId + 1
             /\ classes' = r.classes
             /\ next_id' = [next_id EXCEPT !.classes = r.next]
             /\ IF r.outcome # OK
                THEN /\ abort("insert_classes", a, r.outcome)
                     /\ UNCHANGED uncommitted
                ELSE /\ commit
                     /\ return("insert_classes", a,
                               {c \in r.classes : c.class_system_id = system_id})
             /\ UNCHANGED <<systems, mappings, style_formats, styles>>

\* The inserts run inside one db.session.begin_nested(): an abort in the loop
\* rolls the session back to the savepoint, and every insert of the batch with
\* it; without abort the batch is committed.  classification_system() aborts
\* with NotFound for an absent system, so `system is None` never holds.
insert_classes(system_id, classes_files_json) ==
    LET a == [system_id |-> system_id, classes_files_json |-> classes_files_json]
        system == classification_system(system_id)
        r == insert_each(classes, next_id.classes, system_id, classes_files_json)
    IN  IF system.outcome = NotFound
        THEN /\ abort("insert_classes", a, NotFound)
             /\ UNCHANGED store
        ELSE IF system.value = {}
        THEN /\ abort("insert_classes", a, BadRequest)
             /\ UNCHANGED store
        ELSE IF r.outcome # OK
        THEN /\ abort("insert_classes", a, r.outcome)
             /\ UNCHANGED store
        ELSE /\ r.next <= MaxClassId + 1
             /\ classes' = r.classes
             /\ next_id' = [next_id EXCEPT !.classes = r.next]
             /\ commit
             /\ return("insert_classes", a,
                       {c \in r.classes : c.class_system_id = system_id})
             /\ UNCHANGED <<systems, mappings, style_formats, styles>>

\* The class query with the filter on class_system_id left out.
class_of_mutant(class_id, system_id) ==
    {c \in classes : c.id = class_id}

\* The query of delete_class and update_class, and of the mapping functions:
\* filter_by(id=class_id, class_system_id=system_id).
class_of(class_id, system_id) ==
    {c \in classes : c.id = class_id /\ c.class_system_id = system_id}

\* db.session.delete(class_to_delete): the store deletes the mappings of the
\* class with it.
delete_class(system_id, class_id) ==
    LET a == [system_id |-> system_id, class_id |-> class_id]
        class_to_delete == first_or_404(class_of(class_id, system_id))
    IN  IF class_to_delete.outcome = NotFound
        THEN /\ abort("delete_class", a, NotFound)
             /\ UNCHANGED store
        ELSE /\ classes' = classes \ class_to_delete.value
             /\ mappings' = {m \in mappings : /\ m.source_class_id # class_id
                                              /\ m.target_class_id # class_id}
             /\ commit
             /\ return("delete_class", a, NULL)
             /\ UNCHANGED <<systems, style_formats, styles, next_id>>

\* The dicts update_class is called with.
ClassPatches ==
    {[name |-> n, description |-> d] :
        n \in ClassNames \cup {NULL}, d \in Descriptions \cup {NULL}}

update_class(system_id, class_id, obj) ==
    LET a == [system_id |-> system_id, class_id |-> class_id, obj |-> obj]
        system_class == first_or_404(class_of(class_id, system_id))
    IN  IF system_class.outcome = NotFound
        THEN /\ abort("update_class", a, NotFound)
             /\ UNCHANGED store
        ELSE /\ classes' = {IF c \in system_class.value THEN patched(c, obj) ELSE c :
                                c \in classes}
             /\ commit
             /\ return("update_class", a,
                       patched(CHOOSE c \in system_class.value : TRUE, obj))
             /\ UNCHANGED <<systems, mappings, style_formats, styles, next_id>>

---------------------------------------------------------------------------
(* Query results.                                                          *)

\* query.all(): the rows of the query as a list, in the order the store
\* returns them.
RECURSIVE all(_)
all(query) ==
    IF query = {} THEN <<>>
    ELSE LET row == CHOOSE r \in query : TRUE
         IN  <<row>> \o all(query \ {row})

\* The values of a list, as the set that column.in_(list) tests.
in_(list) == {list[i] : i \in 1..Len(list)}

\* distinct(column) with no duplicate removed.
distinct_mutant(list) == list

\* distinct(column): each value of the list once.
RECURSIVE distinct(_)
distinct(list) ==
    IF list = <<>> THEN <<>>
    ELSE LET rest == distinct(Tail(list))
         IN  IF Head(list) \in in_(rest) THEN rest ELSE <<Head(list)>> \o rest

---------------------------------------------------------------------------
(* Mappings.                                                               *)

\* The descriptors a mapping is inserted with.
MappingDescriptions == {"m"}
Degrees == {1}

\* The class pairs <<source, target>> the calls are made with: Forest (1) and
\* Water (2) of the first system to Deforestation (3) of the second and back,
\* and a class that does not exist (4).
ClassPairs == {<<1, 3>>, <<2, 3>>, <<3, 1>>, <<3, 2>>, <<4, 3>>}
FilePairs == {<<1, 3>>, <<2, 3>>, <<3, 1>>}

Descriptors(pairs) ==
    {[target_class_id |-> p[2], source_class_id |-> p[1], description |-> d,
      degree_of_similarity |-> g] :
        p \in pairs, d \in MappingDescriptions, g \in Degrees}

MappingDescriptors == Descriptors(ClassPairs)

\* The mapping files insert_mappings is called with.
MappingFiles == UNION {[1..n -> Descriptors(FilePairs)] : n \in 0..MaxBatch}

\* The row insert_mapping builds for a descriptor.
ClassMapping(id, d) ==
    [id |-> id, source_class_id |-> d.source_class_id,
     target_class_id |-> d.target_class_id, description |-> d.description,
     degree_of_similarity |-> d.degree_of_similarity]

\* get_mappings: the ids of the source system's classes, the distinct target
\* classes of the mappings from them, and the distinct ids of the systems
\* joined to those target classes.
get_mappings(system_id_source) ==
    LET classes_source ==
            all({c.id : c \in {c \in classes : c.class_system_id = system_id_source}})
        from_source == all({m \in mappings : m.source_class_id \in in_(classes_source)})
        targets_class_id ==
            distinct([i \in 1..Len(from_source) |-> from_source[i].target_class_id])
        joined == all({<<s, c>> \in systems \X classes :
                        /\ c.class_system_id = s.id
                        /\ c.id \in in_(targets_class_id)})
    IN  distinct([i \in 1..Len(joined) |-> joined[i][1].id])

\* get_system_mapping: the mappings from a class of the source system to a
\* class of the target system, as the list .all() returns.
get_system_mapping(system_id_source, system_id_target) ==
    LET classes_source == {c.id : c \in {c \in classes :
                                            c.class_system_id = system_id_source}}
        classes_target == {c.id : c \in {c \in classes :
                                            c.class_system_id = system_id_target}}
    IN  all({m \in mappings : /\ m.source_class_id \in classes_source
                              /\ m.target_class_id \in classes_target})

\* ClassesMappingSchema().dump(mappings, many=True): one record per mapping.
dump_mappings(list) ==
    [i \in 1..Len(list) |->
        [source_class_id |-> list[i].source_class_id,
         target_class_id |-> list[i].target_class_id,
         description |-> list[i].description,
         degree_of_similarity |-> list[i].degree_of_similarity]]

get_mapping(system_id_source, system_id_target) ==
    dump_mappings(get_system_mapping(system_id_source, system_id_target))

\* One call of insert_mapping on the rows `maps` with the next id `nid`:
\* NotFound unless the source class is a class of the source system and the
\* target class one of the target system; no duplicate check.
insert_mapping_on(maps, nid, system_id_source, system_id_target, d) ==
    IF first_or_404(class_of(d.source_class_id, system_id_source)).outcome = NotFound
    THEN [outcome |-> NotFound, mappings |-> maps, next |-> nid]
    ELSE IF first_or_404(class_of(d.target_class_id, system_id_target)).outcome
                = NotFound
    THEN [outcome |-> NotFound, mappings |-> maps, next |-> nid]
    ELSE [outcome |-> OK, mappings |-> maps \cup {ClassMapping(nid, d)},
          next |-> nid + 1]

\* insert_mapping called on its own: the row is added and not committed.
insert_mapping(system_id_source, system_id_target, d) ==
    LET a == [system_id_source |-> system_id_source,
              system_id_target |-> system_id_target,
              target_class_id |-> d.target_class_id,
              source_class_id |-> d.source_class_id,
              description |-> d.description,
              degree_of_similarity |-> d.degree_of_similarity]
        r == insert_mapping_on(mappings, next_id.mappings, system_id_source,
                               system_id_target, d)
    IN  IF r.outcome # OK
        THEN /\ abort("insert_mapping", a, r.outcome)
             /\ UNCHANGED store
        ELSE /\ next_id.mappings <= MaxMappingId
             /\ mappings' = r.mappings
             /\ next_id' = [next_id EXCEPT !.mappings = r.next]
             /\ uncommitted' = uncommitted \cup {<<"mappings", next_id.mappings>>}
             /\ return("insert_mapping", a, NULL)
             /\ UNCHANGED <<systems, classes, style_formats, styles>>

\* for mapping in mapping_file: insert_mapping inside its own begin_nested(),
\* then db.session.commit().  The loop stops at the first descriptor that
\* aborts; `done` counts the descriptors committed before it.
RECURSIVE insert_each_mapping(_, _, _, _, _, _)
insert_each_mapping(maps, nid, system_id_source, system_id_target, mapping_file, done) ==
    IF mapping_file = <<>>
    THEN [outcome |-> OK, mappings |-> maps, next |-> nid, done |-> done]
    ELSE LET r == insert_mapping_on(maps, nid, system_id_source, system_id_target,
                                    Head(mapping_file))
         IN  IF r.outcome # OK
             THEN [outcome |-> r.outcome, mappings |-> maps, next |-> nid,
                   done |-> done]
             ELSE insert_each_mapping(r.mappings, r.next, system_id_source,
                                      system_id_target, Tail(mapping_file), done + 1)

\* insert_mappings with the whole batch in one transaction: an abort rolls
\* every insert of the batch back.
insert_mappings_mutant(system_id_source, system_id_target, mapping_file) ==
    LET a == [system_id_source |-> system_id_source,
              system_id_target |-> system_id_target, mapping_file |-> mapping_file]
        r == insert_each_mapping(mappings, next_id.mappings, system_id_source,
                                 system_id_target, mapping_file, 0)
    IN  /\ r.next <= MaxMappingId + 1
        /\ IF r.outcome # OK
           THEN /\ abort("insert_mappings", a, r.outcome)
                /\ UNCHANGED store
           ELSE /\ mappings' = r.mappings
                /\ next_id' = [next_id EXCEPT !.mappings = r.next]
                /\ commit
                /\ UNCHANGED <<systems, classes, style_formats, styles>>
                /\ return("insert_mappings", a,
                          get_mapping(system_id_source, system_id_target)')

\* The descriptors before the first that aborts stay inserted and committed;
\* the call returns the mappings of the two systems when none aborts.
insert_mappings(system_id_source, system_id_target, mapping_file) ==
    LET a == [system_id_source |-> system_id_source,
              system_id_target |-> system_id_target, mapping_file |-> mapping_file]
        r == insert_each_mapping(mappings, next_id.mappings, system_id_source,
                                 system_id_target, mapping_file, 0)
    IN  /\ r.next <= MaxMappingId + 1
        /\ mappings' = r.mappings
        /\ next_id' = [next_id EXCEPT !.mappings = r.next]
        /\ uncommitted' = IF r.done > 0 THEN {} ELSE uncommitted
        /\ UNCHANGED <<systems, classes, style_formats, styles>>
        /\ IF r.outcome # OK
           THEN abort("insert_mappings", a, r.outcome)
           ELSE return("insert_mappings", a,
                       get_mapping(system_id_source, system_id_target)')

\* The test `is not None` in place of the truth test: an empty description and
\* a zero degree pass it.
truthy_mutant(obj, key) ==
    /\ key \in DOMAIN obj
    /\ IF key = "description" THEN obj[key] # NULL ELSE TRUE

\* `if description:` and `if degree_of_similarity:`: a value that is absent,
\* None, empty or zero is falsy.
truthy(obj, key) ==
    /\ key \in DOMAIN obj
    /\ IF key = "description" THEN obj[key] \notin {NULL, ""} ELSE obj[key] # 0

\* The dicts update_mapping is called with: the two class ids, and optionally
\* a description and a degree of similarity.
MappingUpdates ==
    LET ids == {[target_class_id |-> p[2], source_class_id |-> p[1]] :
                    p \in FilePairs}
    IN  {[f \in DOMAIN i \cup keys |->
            IF f = "description" THEN d
            ELSE IF f = "degree_of_similarity" THEN g
            ELSE i[f]] :
            i \in ids, keys \in SUBSET {"description", "degree_of_similarity"},
            d \in {"", "n"}, g \in {0, 2}}

\* update_mapping: the mapping is the first row with the two class ids, and
\* only a truthy description or degree of similarity overwrites.
update_mapping(system_id_source, system_id_target, obj) ==
    LET a == [system_id_source |-> system_id_source,
              system_id_target |-> system_id_target, mapping |-> obj]
        found == {m \in mappings : /\ m.source_class_id = obj.source_class_id
                                   /\ m.target_class_id = obj.target_class_id}
    IN  IF \/ first_or_404(class_of(obj.source_class_id, system_id_source)).outcome
                = NotFound
           \/ first_or_404(class_of(obj.target_class_id, system_id_target)).outcome
                = NotFound
           \/ first_or_404(found).outcome = NotFound
        THEN /\ abort("update_mapping", a, NotFound)
             /\ UNCHANGED store
        ELSE \E mapping \in found :
             /\ mappings' = (mappings \ {mapping}) \cup
                    {[mapping EXCEPT
                        !.description =
                            IF truthy(obj, "description") THEN obj.description ELSE @,
                        !.degree_of_similarity =
                            IF truthy(obj, "degree_of_similarity")
                            THEN obj.degree_of_similarity ELSE @]}
             /\ commit
             /\ return("update_mapping", a, NULL)
             /\ UNCHANGED <<systems, classes, style_formats, styles, next_id>>

\* `mappings is None`: get_system_mapping returns a list, which is never None.
is_None(value) == value = NULL

delete_mappings(system_id_source, system_id_target) ==
    LET a == [system_id_source |-> system_id_source,
              system_id_target |-> system_id_target]
        found == get_system_mapping(system_id_source, system_id_target)
    IN  IF is_None(found)
        THEN /\ abort("delete_mappings", a, BadRequest)
             /\ UNCHANGED store
        ELSE /\ mappings' = mappings \ in_(found)
             /\ commit
             /\ return("delete_mappings", a, NULL)
             /\ UNCHANGED <<systems, classes, style_formats, styles, next_id>>

---------------------------------------------------------------------------
(* Style formats and styles.                                               *)

StyleFormatNames == {"QML", "SLD"}
FormatIds == 1..(MaxFormatId + 1)

\* The uploaded files: a filename and the bytes file.read() returns.
Files ==
    {[filename |-> "legend.qml", content |-> "bytes1"],
     [filename |-> "legend.sld", content |-> "bytes2"]}

\* The extension of a filename of Files.
extension(filename) ==
    IF filename = "legend.qml" THEN "qml" ELSE "sld"

\* get_mimetype(filename): the mime type of the filename's extension.
get_mimetype(filename) ==
    IF extension(filename) = "qml" THEN "text/qml" ELSE "text/sld"

create_style_format(name) ==
    LET a == [name |-> name]
        style_format == [id |-> next_id.style_formats, name |-> name]
    IN  IF {f \in style_formats : f.name = name} # {}
        THEN /\ abort("create_style_format", a, BadRequest)
             /\ UNCHANGED store
        ELSE /\ next_id.style_formats <= MaxFormatId
             /\ style_formats' = style_formats \cup {style_format}
             /\ next_id' = [next_id EXCEPT !.style_formats = @ + 1]
             /\ commit
             /\ return("create_style_format", a, style_format)
             /\ UNCHANGED <<systems, classes, mappings, styles>>

\* insert_file: the system and the style format must exist; the style of the
\* pair is added with no query for a style the pair already has.
insert_file(style_format_id, system_id, file) ==
    LET a == [style_format_id |-> style_format_id, system_id |-> system_id,
              file |-> file]
        style == [id |-> next_id.styles, class_system_id |-> system_id,
                  style_format_id |-> style_format_id,
                  mime_type |-> get_mimetype(file.filename),
                  style |-> file.content]
    IN  IF \/ classification_system(system_id).outcome = NotFound
           \/ first_or_404({f \in style_formats : f.id = style_format_id}).outcome
                = NotFound
        THEN /\ abort("insert_file", a, NotFound)
             /\ UNCHANGED store
        ELSE /\ next_id.styles <= MaxStyleId
             /\ styles' = styles \cup {style}
             /\ next_id' = [next_id EXCEPT !.styles = @ + 1]
             /\ commit
             /\ return("insert_file", a, style)
             /\ UNCHANGED <<systems, classes, mappings, style_formats>>

\* The query of update_file, delete_file and get_classification_system_style.
style_of(system_id, style_format_id) ==
    {s \in styles : /\ s.class_system_id = system_id
                    /\ s.style_format_id = style_format_id}

\* update_file: .first_or_404() is any one row of the pair.
update_file(style_format_id, system_id, file) ==
    LET a == [style_format_id |-> style_format_id, system_id |-> system_id,
              file |-> file]
    IN  IF first_or_404(style_of(system_id, style_format_id)).outcome = NotFound
        THEN /\ abort("update_file", a, NotFound)
             /\ UNCHANGED store
        ELSE \E style \in style_of(system_id, style_format_id) :
             /\ styles' = (styles \ {style}) \cup
                    {[style EXCEPT !.style = file.content,
                                   !.mime_type = get_mimetype(file.filename)]}
             /\ commit
             /\ return("update_file", a, NULL)
             /\ UNCHANGED <<systems, classes, mappings, style_formats, next_id>>

delete_file(style_format_id, system_id) ==
    LET a == [style_format_id |-> style_format_id, system_id |-> system_id]
    IN  IF first_or_404(style_of(system_id, style_format_id)).outcome = NotFound
        THEN /\ abort("delete_file", a, NotFound)
             /\ UNCHANGED store
        ELSE \E style_to_delete \in style_of(system_id, style_format_id) :
             /\ styles' = styles \ {style_to_delete}
             /\ commit
             /\ return("delete_file", a, NULL)
             /\ UNCHANGED <<systems, classes, mappings, style_formats, next_id>>

\* get_classification_system_style: .first() of the pair's styles joined to
\* their format, which is any one of them (the query has no order), or None.
get_classification_system_style(system_id, style_format_id) ==
    LET a == [system_id |-> system_id, style_format_id |-> style_format_id]
        found == {s \in style_of(system_id, style_format_id) :
                    \E f \in style_formats : f.id = s.style_format_id}
    IN  IF found = {}
        THEN read("get_classification_system_style", a, NULL)
        ELSE \E style_file \in found :
                read("get_classification_system_style", a,
                     <<style_file.style, style_file.mime_type>>)

\* db.session.delete(style_format): the store deletes the styles of the format
\* with it.
delete_style_format(style_format_id) ==
    LET a == [style_format_id |-> style_format_id]
        style_format == first_or_404({f \in style_formats : f.id = style_format_id})
    IN  IF style_format.outcome = NotFound
        THEN /\ abort("delete_style_format", a, NotFound)
             /\ UNCHANGED store
        ELSE /\ style_formats' = style_formats \ style_format.value
             /\ styles' = {s \in styles : s.style_format_id # style_format_id}
             /\ commit
             /\ return("delete_style_format", a, NULL)
             /\ UNCHANGED <<systems, classes, mappings, next_id>>

---------------------------------------------------------------------------
(* The database after construction: no rows.                               *)

Init ==
    /\ systems = {}
    /\ classes = {}
    /\ mappings = {}
    /\ style_formats = {}
    /\ styles = {}
    /\ next_id = [systems |-> 1, classes |-> 1, mappings |-> 1,
                  style_formats |-> 1, styles |-> 1]
    /\ uncommitted = {}
    /\ op = "init"
    /\ args = NULL
    /\ outcome = OK
    /\ ret = NULL

\* The sequences of at most MaxBatch descriptors.
Batches(S) == UNION {[1..n -> S] : n \in 0..MaxBatch}

\* Two classification systems, as two create_classification_system calls leave
\* them.
SystemA ==
    [id |-> 1, name |-> "IBGE", authority_name |-> "INPE", version |-> "1.0",
     description |-> "d"]

SystemB ==
    [id |-> 2, name |-> "PRODES", authority_name |-> "INPE", version |-> "1.0",
     description |-> "d"]

InitSystems ==
    /\ systems = {SystemA, SystemB}
    /\ classes = {}
    /\ mappings = {}
    /\ style_formats = {}
    /\ styles = {}
    /\ next_id = [systems |-> 3, classes |-> 1, mappings |-> 1,
                  style_formats |-> 1, styles |-> 1]
    /\ uncommitted = {}
    /\ op = "create_classification_system"
    /\ args = [name |-> "PRODES", authority_name |-> "INPE", version |-> "1.0",
               description |-> "d"]
    /\ outcome = OK
    /\ ret = SystemB

\* The two systems with the classes Forest and Water of the first and
\* Deforestation of the second, as two insert_classes calls leave them.
\* The two systems and the style format QML, as a create_style_format call
\* leaves them.
InitFormats ==
    /\ systems = {SystemA, SystemB}
    /\ classes = {}
    /\ mappings = {}
    /\ style_formats = {[id |-> 1, name |-> "QML"]}
    /\ styles = {}
    /\ next_id = [systems |-> 3, classes |-> 1, mappings |-> 1,
                  style_formats |-> 2, styles |-> 1]
    /\ uncommitted = {}
    /\ op = "create_style_format"
    /\ args = [name |-> "QML"]
    /\ outcome = OK
    /\ ret = [id |-> 1, name |-> "QML"]

MappedSystemIds == {SystemA.id, SystemB.id}

InitClasses ==
    /\ systems = {SystemA, SystemB}
    /\ classes = {LucClass(1, 1, [name |-> "Forest", code |-> "c",
                                   description |-> "d", class_parent_id |-> NULL]),
                  LucClass(2, 1, [name |-> "Water", code |-> "c",
                                   description |-> "d", class_parent_id |-> NULL]),
                  LucClass(3, 2, [name |-> "Deforestation", code |-> "c",
                                   description |-> "d", class_parent_id |-> NULL])}
    /\ mappings = {}
    /\ style_formats = {}
    /\ styles = {}
    /\ next_id = [systems |-> 3, classes |-> 4, mappings |-> 1,
                  style_formats |-> 1, styles |-> 1]
    /\ uncommitted = {}
    /\ op = "init"
    /\ args = NULL
    /\ outcome = OK
    /\ ret = NULL

\* The database of InitClasses after one insert_mappings call from the first
\* system to the second that inserted every descriptor of its file.
InitMappings ==
    \E file \in MappingFiles :
        /\ systems = {SystemA, SystemB}
        /\ classes = {LucClass(1, 1, [name |-> "Forest", code |-> "c",
                                       description |-> "d", class_parent_id |-> NULL]),
                      LucClass(2, 1, [name |-> "Water", code |-> "c",
                                       description |-> "d", class_parent_id |-> NULL]),
                      LucClass(3, 2, [name |-> "Deforestation", code |-> "c",
                                       description |-> "d", class_parent_id |-> NULL])}
        /\ LET r == insert_each_mapping({}, 1, SystemA.id, SystemB.id, file, 0)
           IN  /\ r.outcome = OK
               /\ r.next <= MaxMappingId + 1
               /\ mappings = r.mappings
               /\ next_id = [systems |-> 3, classes |-> 4, mappings |-> r.next,
                             style_formats |-> 1, styles |-> 1]
        /\ style_formats = {}
        /\ styles = {}
        /\ uncommitted = {}
        /\ op = "insert_mappings"
        /\ args = [system_id_source |-> SystemA.id, system_id_target |-> SystemB.id,
                   mapping_file |-> file]
        /\ outcome = OK
        /\ ret = get_mapping(SystemA.id, SystemB.id)

CreateClassificationSystem ==
    \E n \in SystemNames, au \in Authorities, v \in Versions, d \in Descriptions :
        create_classification_system(n, au, v, d)

DeleteClassificationSystem ==
    \E id \in SystemIds : delete_classification_system(id)

UpdateClassificationSystem ==
    \E id \in SystemIds, obj \in SystemPatches : update_classification_system(id, obj)

InsertClass ==
    \E id \in SystemIds, d \in ClassDescriptors : insert_class(id, d)

InsertClasses ==
    \E id \in SystemIds, batch \in Batches(ClassDescriptors) : insert_classes(id, batch)

DeleteClass ==
    \E sid \in SystemIds, cid \in ClassIds : delete_class(sid, cid)

UpdateClass ==
    \E sid \in SystemIds, cid \in ClassIds, obj \in ClassPatches :
        update_class(sid, cid, obj)

\* The mapping calls are made for the two systems of InitClasses.
InsertMapping ==
    \E src \in MappedSystemIds, tgt \in MappedSystemIds, d \in MappingDescriptors :
        insert_mapping(src, tgt, d)

InsertMappings ==
    \E src \in MappedSystemIds, file \in MappingFiles :
        \E tgt \in MappedSystemIds \ {src} : insert_mappings(src, tgt, file)

UpdateMapping ==
    \E src \in MappedSystemIds, tgt \in MappedSystemIds, obj \in MappingUpdates :
        update_mapping(src, tgt, obj)

DeleteMappings ==
    \E src \in MappedSystemIds, tgt \in MappedSystemIds : delete_mappings(src, tgt)

GetMappings ==
    \E src \in MappedSystemIds :
        read("get_mappings", [system_id_source |-> src], get_mappings(src))

GetMapping ==
    \E src \in MappedSystemIds, tgt \in MappedSystemIds :
        read("get_mapping", [system_id_source |-> src, system_id_target |-> tgt],
             get_mapping(src, tgt))

CreateStyleFormat ==
    \E name \in StyleFormatNames : create_style_format(name)

DeleteStyleFormat ==
    \E id \in FormatIds : delete_style_format(id)

InsertFile ==
    \E fid \in FormatIds, sid \in SystemIds, file \in Files : insert_file(fid, sid, file)

UpdateFile ==
    \E fid \in FormatIds, sid \in SystemIds, file \in Files : update_file(fid, sid, file)

DeleteFile ==
    \E fid \in FormatIds, sid \in SystemIds : delete_file(fid, sid)

GetClassificationSystemStyle ==
    \E sid \in SystemIds, fid \in FormatIds : get_classification_system_style(sid, fid)

(* The calls on classification systems, from the empty database.           *)

NextSystem ==
    \/ CreateClassificationSystem
    \/ UpdateClassificationSystem
    \/ DeleteClassificationSystem

SpecSystem == Init /\ [][NextSystem]_vars

(* The calls on classes, from the database of two classification systems.  *)

NextClass ==
    \/ InsertClass
    \/ InsertClasses
    \/ UpdateClass
    \/ DeleteClass
    \/ DeleteClassificationSystem

SpecClass == InitSystems /\ [][NextClass]_vars

(* The calls on mappings, from the database of the two systems and their  *)
(* classes.                                                                *)

NextMapping ==
    \/ InsertMapping
    \/ InsertMappings
    \/ DeleteMappings
    \/ GetMappings

SpecMapping == InitClasses /\ [][NextMapping]_vars

(* The updates of mappings, from the database of the two systems, their    *)
(* classes and the mappings of one file.                                   *)

NextUpdate ==
    \/ UpdateMapping
    \/ GetMapping

SpecUpdate == InitMappings /\ [][NextUpdate]_vars

(* The calls on styles, from the database of the two systems and one style *)
(* format.                                                                 *)

NextStyle ==
    \/ InsertFile
    \/ UpdateFile
    \/ DeleteFile
    \/ GetClassificationSystemStyle

SpecStyle == InitFormats /\ [][NextStyle]_vars

(* Every call, from the empty database.                                    *)

Next ==
    \/ NextSystem
    \/ NextClass
    \/ NextMapping
    \/ UpdateMapping
    \/ GetMapping
    \/ NextStyle
    \/ CreateStyleFormat
    \/ DeleteStyleFormat

Spec == Init /\ [][Next]_vars

---------------------------------------------------------------------------
(* Classification systems: the claims.                                     *)

\* C1: no two stored classification systems share the same (name, version)
\* pair, in every state that create_classification_system,
\* update_classification_system and delete_classification_system reach.
C1_UniqueNameVersion ==
    \A s, t \in systems : (s.name = t.name /\ s.version = t.version) => s = t

\* C2: create_classification_system called with a (name, version) pair that a
\* stored system has ends with Conflict, and the set of stored systems is the
\* same after the call as before it.
C2_DuplicateIsConflict ==
    [][(/\ op' = "create_classification_system"
        /\ \E s \in systems : s.name = args'.name /\ s.version = args'.version)
       => (outcome' = Conflict /\ systems' = systems)]_vars

\* What the call does on such a pair: it ends with BadRequest (abort(400)), and
\* the set of stored systems is the same after the call as before it.
DuplicateIsBadRequest ==
    [][(/\ op' = "create_classification_system"
        /\ \E s \in systems : s.name = args'.name /\ s.version = args'.version)
       => (outcome' = BadRequest /\ systems' = systems)]_vars

\* A create_classification_system call was refused for a pair a stored system has.
DuplicateRefused ==
    /\ op = "create_classification_system"
    /\ outcome = BadRequest
    /\ \E s \in systems : s.name = args.name /\ s.version = args.version

---------------------------------------------------------------------------
(* Classes: the claims.                                                    *)

\* Descriptor i of the batch has the name of a class the system held before the
\* call, or the name of an earlier descriptor of the batch.
DuplicateAt(cls, system_id, batch, i) ==
    \/ \E c \in cls : c.class_system_id = system_id /\ c.name = batch[i].name
    \/ \E j \in 1..(i - 1) : batch[j].name = batch[i].name

\* C3: insert_classes is all-or-nothing: for an existing system, if a
\* descriptor's name duplicates a class name of the system (stored before the
\* call or inserted earlier in the batch), the call fails and the stored
\* classes are those stored before the call.
C3_AllOrNothing ==
    [][(/\ op' = "insert_classes"
        /\ \E s \in systems : s.id = args'.system_id
        /\ \E i \in 1..Len(args'.classes_files_json) :
              DuplicateAt(classes, args'.system_id, args'.classes_files_json, i))
       => (outcome' # OK /\ classes' = classes /\ uncommitted' = uncommitted)]_vars

\* insert_classes failed on a descriptor that follows one the system had no
\* class for: the descriptor before the duplicate was inserted and rolled back.
C3_Witness ==
    /\ op = "insert_classes"
    /\ outcome = Conflict
    /\ Len(args.classes_files_json) >= 2
    /\ ~ DuplicateAt(classes, args.system_id, args.classes_files_json, 1)
    /\ DuplicateAt(classes, args.system_id, args.classes_files_json, 2)

\* C4: insert_classes called with a system_id of no stored system
\* ends with BadRequest, not NotFound, and inserts no class.
C4_AbsentSystemIsBadRequest ==
    [][(/\ op' = "insert_classes"
        /\ ~ \E s \in systems : s.id = args'.system_id)
       => (outcome' = BadRequest /\ classes' = classes)]_vars

\* C10: insert_class with a name a class of the same system has ends with
\* Conflict and adds no class; with that name for a different system in which
\* the name is unused it succeeds and adds exactly one class, owned by that
\* other system.
C10_NameUniquePerSystem ==
    [][op' = "insert_class" =>
        LET used(sid) == \E c \in classes :
                            c.class_system_id = sid /\ c.name = args'.name
        IN  /\ used(args'.system_id) => (outcome' = Conflict /\ classes' = classes)
            /\ (/\ ~ used(args'.system_id)
                /\ \E s \in systems : s.id = args'.system_id
                /\ \E s \in systems : s.id # args'.system_id /\ used(s.id))
               => /\ outcome' = OK
                  /\ \E c \in classes' \ classes :
                        /\ classes' = classes \cup {c}
                        /\ c.class_system_id = args'.system_id
                        /\ c.name = args'.name]_vars

\* insert_class added a class whose name a class of another system has.
C10_Witness ==
    /\ op = "insert_class"
    /\ outcome = OK
    /\ \E c, d \in classes :
          /\ c.id = next_id.classes - 1
          /\ c.class_system_id = args.system_id
          /\ c.name = args.name
          /\ d.class_system_id # c.class_system_id
          /\ d.name = c.name

---------------------------------------------------------------------------
(* Mappings: the claims.                                                   *)

\* The class is a class of the system.
Owns(system_id, class_id) ==
    \E c \in classes : c.id = class_id /\ c.class_system_id = system_id

\* A mapping's source class is a class of the source system and its target
\* class one of the target system.
Between(m, system_id_source, system_id_target) ==
    /\ Owns(system_id_source, m.source_class_id)
    /\ Owns(system_id_target, m.target_class_id)

\* C5: delete_mappings(source, target) called when no mapping has its
\* source class in the source system and its target class in the target system
\* ends with BadRequest.
C5_NoMappingIsBadRequest ==
    [][(/\ op' = "delete_mappings"
        /\ ~ \E m \in mappings :
                Between(m, args'.system_id_source, args'.system_id_target))
       => outcome' = BadRequest]_vars

\* C6: get_mappings(S) returns exactly the ids of the systems T such that some
\* mapping has its source class owned by S and its target class owned by T,
\* each id once.
C6_GetMappingsExact ==
    op = "get_mappings" =>
        /\ in_(ret) = {c.class_system_id :
                        c \in {c \in classes :
                                \E m \in mappings :
                                    /\ m.target_class_id = c.id
                                    /\ Owns(args.system_id_source, m.source_class_id)}}
        /\ \A i, j \in 1..Len(ret) : ret[i] = ret[j] => i = j

\* get_mappings was called for a system with mappings to two classes of one
\* other system.
C6_Witness ==
    /\ op = "get_mappings"
    /\ Len(ret) = 1
    /\ \E m, n \in mappings, c, d \in classes :
          /\ Owns(args.system_id_source, m.source_class_id)
          /\ Owns(args.system_id_source, n.source_class_id)
          /\ c.id = m.target_class_id
          /\ d.id = n.target_class_id
          /\ c.id # d.id
          /\ c.class_system_id = d.class_system_id

\* The descriptor names a source class that is no class of the source system,
\* or a target class that is no class of the target system.
Unresolved(d, system_id_source, system_id_target) ==
    \/ ~ Owns(system_id_source, d.source_class_id)
    \/ ~ Owns(system_id_target, d.target_class_id)

\* The row was built from the descriptor.
FromDescriptor(m, d) ==
    /\ m.source_class_id = d.source_class_id
    /\ m.target_class_id = d.target_class_id
    /\ m.description = d.description
    /\ m.degree_of_similarity = d.degree_of_similarity

\* C7: insert_mapping with a source_class_id that is no class of the declared
\* source system, or a target_class_id that is no class of the declared target
\* system, ends with NotFound and adds no mapping, whether or not a class with
\* that id exists in another system; insert_mappings ends with NotFound on
\* such a descriptor and adds no mapping for it.
C7_UnresolvedIsNotFound ==
    [][/\ (/\ op' = "insert_mapping"
           /\ Unresolved(args', args'.system_id_source, args'.system_id_target))
          => (outcome' = NotFound /\ mappings' = mappings)
       /\ op' = "insert_mappings" =>
            \A i \in 1..Len(args'.mapping_file) :
                Unresolved(args'.mapping_file[i], args'.system_id_source,
                           args'.system_id_target)
                => /\ outcome' = NotFound
                   /\ ~ \E m \in mappings' \ mappings :
                            FromDescriptor(m, args'.mapping_file[i])]_vars

\* insert_mapping was refused for a source class that is a class of another
\* system.
C7_Witness ==
    /\ op = "insert_mapping"
    /\ outcome = NotFound
    /\ \E c \in classes : /\ c.id = args.source_class_id
                          /\ c.class_system_id # args.system_id_source
    /\ Owns(args.system_id_target, args.target_class_id)

\* C8: insert_mappings is not atomic: when descriptor k is the first to fail,
\* the mappings of descriptors 1..k-1 are stored and committed, and no mapping
\* of descriptor k or of a later descriptor is stored.
C8_EarlierInsertsCommitted ==
    [][op' = "insert_mappings" =>
        LET file == args'.mapping_file
            bad(i) == Unresolved(file[i], args'.system_id_source,
                                 args'.system_id_target)
            new == mappings' \ mappings
        IN  \A k \in 1..Len(file) :
                (bad(k) /\ \A j \in 1..(k - 1) : ~ bad(j))
                => /\ outcome' = NotFound
                   /\ mappings \subseteq mappings'
                   /\ Cardinality(new) = k - 1
                   /\ \A j \in 1..(k - 1) :
                        \E m \in new :
                            /\ m.id = next_id.mappings + j - 1
                            /\ FromDescriptor(m, file[j])
                            /\ <<"mappings", m.id>> \notin uncommitted']_vars

\* insert_mappings failed on its second descriptor after inserting the first.
C8_Witness ==
    /\ op = "insert_mappings"
    /\ outcome = NotFound
    /\ Len(args.mapping_file) >= 2
    /\ ~ Unresolved(args.mapping_file[1], args.system_id_source, args.system_id_target)
    /\ Unresolved(args.mapping_file[2], args.system_id_source, args.system_id_target)
    /\ \E m \in mappings : /\ m.id = next_id.mappings - 1
                           /\ FromDescriptor(m, args.mapping_file[1])
                           /\ <<"mappings", m.id>> \notin uncommitted

---------------------------------------------------------------------------
(* Styles: the claims.                                                     *)

\* C9: after insert_file(style_format_id, system_id, file) succeeds,
\* get_classification_system_style(system_id, style_format_id) returns the
\* bytes read from that file and the mime type of that file's filename.
C9_RoundTrip ==
    [][(/\ op = "insert_file"
        /\ outcome = OK
        /\ op' = "get_classification_system_style"
        /\ args'.system_id = args.system_id
        /\ args'.style_format_id = args.style_format_id)
       => ret' = <<args.file.content, get_mimetype(args.file.filename)>>]_vars

---------------------------------------------------------------------------
(* Updates of mappings: the claims.                                        *)

\* C11: update_mapping on an existing mapping with degree_of_similarity = 0
\* leaves the stored degree unchanged, and with an empty description leaves the
\* stored description unchanged; only a supplied value that is not falsy
\* overwrites, in one row of the class pair, and source_class_id and
\* target_class_id of no row change.
C11_FalsyValuesSkipped ==
    [][(op' = "update_mapping" /\ outcome' = OK) =>
        LET obj == args'.mapping
            newDescription(m) ==
                IF /\ "description" \in DOMAIN obj
                   /\ obj.description # ""
                   /\ obj.description # NULL
                THEN obj.description ELSE m.description
            newDegree(m) ==
                IF /\ "degree_of_similarity" \in DOMAIN obj
                   /\ obj.degree_of_similarity # 0
                THEN obj.degree_of_similarity ELSE m.degree_of_similarity
        IN  \E m \in mappings :
                /\ m.source_class_id = obj.source_class_id
                /\ m.target_class_id = obj.target_class_id
                /\ mappings' = (mappings \ {m}) \cup
                        {[id |-> m.id,
                          source_class_id |-> m.source_class_id,
                          target_class_id |-> m.target_class_id,
                          description |-> newDescription(m),
                          degree_of_similarity |-> newDegree(m)]}]_vars

\* update_mapping was called with an empty description and a zero degree on a
\* mapping whose description is not empty and whose degree is not zero.
C11_Witness ==
    /\ op = "update_mapping"
    /\ outcome = OK
    /\ "description" \in DOMAIN args.mapping
    /\ args.mapping.description = ""
    /\ "degree_of_similarity" \in DOMAIN args.mapping
    /\ args.mapping.degree_of_similarity = 0
    /\ \E m \in mappings :
          /\ m.source_class_id = args.mapping.source_class_id
          /\ m.target_class_id = args.mapping.target_class_id
          /\ m.description # ""
          /\ m.degree_of_similarity # 0

====
